---- MODULE Spec2Model ----
(***************************************************************************)
(* Model of the pdf-processing service: the page selector                  *)
(* (PDFService.selected_pages and the module-level selected_pages of       *)
(* app/services/pdf.py), the document operations of PDFService and the     *)
(* HTTP endpoints of app/api/endpoints/pdf.py.                             *)
(***************************************************************************)
EXTENDS Integers, Sequences, FiniteSets, TLC

(***************************************************************************)
(* Bounds of the model.                                                    *)
(***************************************************************************)
MaxTotal == 3
MaxListLen == 2

(***************************************************************************)
(* Python optional values: None is the empty tuple, a present value v is   *)
(* the one-element tuple <<v>>.                                            *)
(***************************************************************************)
None == <<>>
Some(v) == <<v>>

\* Python truthiness of an int | None: None and 0 are falsy.
Truthy(o) == o # None /\ o[1] # 0

\* Python truthiness of a list | None: None and [] are falsy.
ListTruthy(o) == o # None /\ o[1] # <<>>

Max(a, b) == IF a >= b THEN a ELSE b
Min(a, b) == IF a <= b THEN a ELSE b

SeqRange(s) == {s[i] : i \in 1..Len(s)}

MinOf(S) == CHOOSE m \in S : \A x \in S : m <= x
MaxOf(S) == CHOOSE m \in S : \A x \in S : m >= x

\* A listing of a set that is not ordered ascending (largest first).
RECURSIVE unsorted(_)
unsorted(S) ==
    IF S = {} THEN <<>>
    ELSE LET m == MaxOf(S) IN <<m>> \o unsorted(S \ {m})

\* sorted(...) applied to a collection of distinct ints: ascending list.
RECURSIVE sorted(_)
sorted(S) ==
    IF S = {} THEN <<>>
    ELSE LET m == MinOf(S) IN <<m>> \o sorted(S \ {m})

(***************************************************************************)
(* Page Selector.                                                          *)
(***************************************************************************)
\* start_page is rejected when it is not below total_pages (strict variant).
StartOutOfRangeStrict(start_page, total_pages) == start_page > total_pages

\* elif start_page >= total_pages: raise ValueError
StartOutOfRange(start_page, total_pages) == start_page >= total_pages

\* if end_page + total_pages < 0: raise ValueError
EndOutOfRange(end_page, total_pages) == end_page + total_pages < 0

\* The range part of selected_pages: the ValueError flag and the set of
\* indices that the start/end branch adds to pages_to_process.
RangePart(total_pages, start_page, end_page) ==
    LET enter == Truthy(start_page) \/ Truthy(end_page)
        startRaises == /\ enter
                       /\ Truthy(start_page)
                       /\ ~(start_page[1] < 0)
                       /\ StartOutOfRange(start_page[1], total_pages)
        start1 == IF enter /\ Truthy(start_page) /\ start_page[1] < 0
                  THEN Some(Max(0, total_pages + start_page[1]))
                  ELSE start_page
        endRaises == /\ enter
                     /\ ~startRaises
                     /\ Truthy(end_page)
                     /\ EndOutOfRange(end_page[1], total_pages)
        end1 == IF enter /\ Truthy(end_page)
                THEN IF end_page[1] < 0
                     THEN Some(total_pages + end_page[1])
                     ELSE Some(Min(total_pages - 1, end_page[1]))
                ELSE end_page
        inner == Truthy(start1) \/ Truthy(end1)
        start2 == IF Truthy(start1) THEN start1[1] ELSE 0
        end2 == IF Truthy(end1) THEN end1[1] ELSE total_pages - 1
    IN  [raised |-> startRaises \/ endRaises,
         pages  |-> IF enter /\ inner /\ ~(startRaises \/ endRaises)
                    THEN start2..end2 ELSE {}]

\* pages_to_process after "if pages_list: pages_to_process.update(pages_list)".
WithList(pages, pages_list) ==
    IF ListTruthy(pages_list) THEN pages \cup SeqRange(pages_list[1]) ELSE pages

\* filter(lambda x: x < total_pages, pages_to_process)
FilterPages(pages, total_pages) == {x \in pages : x < total_pages}

Raise == [raised |-> TRUE, pages |-> <<>>]
Return(l) == [raised |-> FALSE, pages |-> l]

\* PDFService.selected_pages (app/services/pdf_service.py).
selected_pages(total_pages, start_page, end_page, pages_list) ==
    LET r == RangePart(total_pages, start_page, end_page)
        pages_to_process == WithList(r.pages, pages_list)
    IN  IF r.raised THEN Raise
        ELSE Return(sorted(FilterPages(pages_to_process, total_pages)))

\* selected_pages of app/services/pdf.py: as above, with a ValueError when
\* pages_to_process is empty before the filter is applied.
pdf_selected_pages(total_pages, start_page, end_page, pages_list) ==
    LET r == RangePart(total_pages, start_page, end_page)
        pages_to_process == WithList(r.pages, pages_list)
    IN  IF r.raised THEN Raise
        ELSE IF pages_to_process = {} THEN Raise
        ELSE Return(sorted(FilterPages(pages_to_process, total_pages)))

(***************************************************************************)
(* Documents.  A page carries the index it had in the uploaded document    *)
(* and the set of its text items, each item given by its position in       *)
(* points (72 per inch).  A rectangle is <<left, top, right, bottom>>.     *)
(***************************************************************************)
MaxPages == 2
MaxFigurePages == 1

DefaultDPI == 96
RedactDPI == 72
BorderWidth == 10

Header == <<306, 30>>
Body == <<306, 150>>
Items == {Header, Body}

HeaderBox == <<0, 0, 816, 66>>
FooterBox == <<0, 990, 816, 1056>>
FigureBox == <<171, 64, 643, 370>>
CaptionBox == <<264, 368, 548, 404>>
FullPage == <<0, 0, 816, 1056>>

InBox(pt, box) ==
    /\ box[1] <= pt[1] /\ pt[1] <= box[3]
    /\ box[2] <= pt[2] /\ pt[2] <= box[4]

\* int(v * 72 / DPI): numpy astype(int) truncates toward zero.
ToRedactCoord(v, DPI) ==
    IF v >= 0 THEN (v * RedactDPI) \div DPI ELSE -(((-v) * RedactDPI) \div DPI)

\* np.array(bboxes) * 72 / DPI, astype(int), for one bounding box.
ToRedactBox(bbox, DPI) == [i \in 1..Len(bbox) |-> ToRedactCoord(bbox[i], DPI)]

\* PDFService.redact_page: add a redact annotation per converted box, then
\* apply them; the text items lying in a box are removed from the page.
redact_page(bboxes, page, DPI) ==
    [page EXCEPT !.text =
        {it \in page.text :
            \A i \in 1..Len(bboxes) : ~InBox(it, ToRedactBox(bboxes[i], DPI))}]

\* A blank test with the condition inverted.
is_blank_page_inverted(page) == page.text # {}

\* PDFService.is_blank_page: the page's stripped text is empty.
is_blank_page(page) == page.text = {}

\* [item for pair in v for item in pair if item]
RECURSIVE Flatten(_)
Flatten(v) ==
    IF v = <<>> THEN <<>>
    ELSE LET pair == Head(v)
         IN  SelectSeq(pair, LAMBDA item : item # <<>>) \o Flatten(Tail(v))

\* Document.delete_pages(list) of the document engine: the numbers are made
\* unique; a number outside 0..page_count-1 is a ValueError; the other pages
\* keep their order.
EngineDeletePages(pages, numbers) ==
    IF numbers = {} THEN [raised |-> FALSE, pages |-> pages]
    ELSE IF \E n \in numbers : n < 0 \/ n >= Len(pages)
    THEN [raised |-> TRUE, pages |-> pages]
    ELSE LET kept == sorted({i \in 1..Len(pages) : (i - 1) \notin numbers})
         IN  [raised |-> FALSE,
              pages |-> [j \in 1..Len(kept) |-> pages[kept[j]]]]

\* The state of a PDFService object after an operation: its document, the
\* number of reduce_pdf_size calls so far, and whether the operation raised.
SvcRaise(doc, compactions) ==
    [raised |-> TRUE, doc |-> doc, compactions |-> compactions]
SvcOk(doc, compactions) ==
    [raised |-> FALSE, doc |-> doc, compactions |-> compactions]

\* PDFService.reduce_pdf_size: serialise and reopen; the engine refuses to
\* serialise a document without pages.
reduce_pdf_size(doc, compactions) ==
    IF doc = <<>> THEN SvcRaise(doc, compactions)
    ELSE SvcOk(doc, compactions + 1)

\* A parsed JSON object is the sequence of its <<key, value>> items, in the
\* order dict.items() gives them; Keys and Dict give its keys and its
\* value for each key.
Keys(items) == {items[i][1] : i \in 1..Len(items)}
Dict(items) ==
    [k \in Keys(items) |-> items[CHOOSE i \in 1..Len(items) : items[i][1] = k][2]]

\* The pages of doc with redact_page applied to page k.
RedactAt(doc, k, bboxes, DPI) ==
    [i \in 1..Len(doc) |->
        IF i = k + 1 THEN redact_page(bboxes, doc[i], DPI) ELSE doc[i]]

\* One loop of redact_doc over the items <<k, bboxes>> left, from the
\* document and the delete_pages reached so far: self.doc[k] raises when k
\* is no page, and the pages redacted before stay redacted.
RECURSIVE RedactLoop(_, _, _, _)
RedactLoop(doc, DPI, items, delete_pages) ==
    IF items = <<>>
    THEN [raised |-> FALSE, doc |-> doc, delete_pages |-> delete_pages]
    ELSE LET k == Head(items)[1]
             after == RedactAt(doc, k, Head(items)[2], DPI)
         IN  IF k >= Len(doc)
             THEN [raised |-> TRUE, doc |-> doc, delete_pages |-> {}]
             ELSE RedactLoop(after, DPI, Tail(items),
                             IF is_blank_page(after[k + 1])
                             THEN delete_pages \cup {k} ELSE delete_pages)

\* The items of figure_bboxes with every list of pairs flattened.
FlattenItems(figure_bboxes) ==
    [i \in 1..Len(figure_bboxes) |->
        <<figure_bboxes[i][1], Flatten(figure_bboxes[i][2])>>]

\* The two loops of redact_doc with every blank page deleted as soon as the
\* loops have found it.
redact_pages_deleting(doc, DPI, redaction_bboxes, figure_bboxes) ==
    LET r == RedactLoop(doc, DPI, redaction_bboxes, {})
        f == RedactLoop(r.doc, DPI, FlattenItems(figure_bboxes), r.delete_pages)
    IN  IF r.raised THEN r
        ELSE IF f.raised THEN f
        ELSE [raised |-> FALSE,
              doc |-> EngineDeletePages(f.doc, f.delete_pages).pages,
              delete_pages |-> {}]

\* The two loops of redact_doc: redact the keyed pages, in the order of the
\* items, and collect in delete_pages the keys of the pages found blank;
\* raised when a key is not a page of doc.
redact_pages(doc, DPI, redaction_bboxes, figure_bboxes) ==
    LET r == RedactLoop(doc, DPI, redaction_bboxes, {})
    IN  IF r.raised THEN r
        ELSE RedactLoop(r.doc, DPI, FlattenItems(figure_bboxes), r.delete_pages)

\* The end of redact_doc: delete the pages collected in delete_pages, if
\* any, then reduce_pdf_size.
delete_blank_pages(doc, compactions, delete_pages) ==
    LET del == EngineDeletePages(doc, delete_pages)
    IN  IF del.raised THEN SvcRaise(doc, compactions)
        ELSE reduce_pdf_size(IF delete_pages # {} THEN del.pages ELSE doc,
                             compactions)

\* PDFService.redact_doc.
redact_doc(doc, compactions, DPI, redaction_bboxes, figure_bboxes) ==
    LET r == redact_pages(doc, DPI, redaction_bboxes, figure_bboxes)
    IN  IF r.raised THEN SvcRaise(r.doc, compactions)
        ELSE delete_blank_pages(r.doc, compactions, r.delete_pages)

\* delete_pages resolving the pages with the selected_pages of pdf.py.
delete_pages_strict(doc, compactions, del_page_start, del_page_end, del_pages_list) ==
    LET sel == pdf_selected_pages(Len(doc), del_page_start, del_page_end,
                                  del_pages_list)
        del == EngineDeletePages(doc, SeqRange(sel.pages))
    IN  IF sel.raised THEN SvcRaise(doc, compactions)
        ELSE IF sel.pages = <<>> THEN SvcOk(doc, compactions)
        ELSE IF del.raised THEN SvcRaise(doc, compactions)
        ELSE reduce_pdf_size(del.pages, compactions)

\* PDFService.delete_pages.
delete_pages(doc, compactions, del_page_start, del_page_end, del_pages_list) ==
    LET pages_to_delete == selected_pages(Len(doc), del_page_start,
                                          del_page_end, del_pages_list)
        del == EngineDeletePages(doc, SeqRange(pages_to_delete.pages))
    IN  IF pages_to_delete.raised THEN SvcRaise(doc, compactions)
        ELSE IF pages_to_delete.pages = <<>> THEN SvcOk(doc, compactions)
        ELSE IF del.raised THEN SvcRaise(doc, compactions)
        ELSE reduce_pdf_size(del.pages, compactions)

(***************************************************************************)
(* Images.  An image is <<page, text, box, border>>: the page it shows,    *)
(* the pixel positions of the text items visible in it, the pixel box of   *)
(* the page it covers and the width of the border added around it.         *)
(***************************************************************************)
\* page.get_pixmap(dpi=DPI): positions in points become pixel positions.
ToPixel(pt, DPI) == <<(pt[1] * DPI) \div RedactDPI, (pt[2] * DPI) \div RedactDPI>>

\* PDFService.page_to_image.
page_to_image(page, DPI) ==
    <<page.id, {ToPixel(it, DPI) : it \in page.text}, FullPage, 0>>

\* Image.crop(box)
crop(image, box) ==
    <<image[1], {p \in image[2] : InBox(p, box)}, box, 0>>

\* PDFService.pad_border
pad_border(image) == <<image[1], image[2], image[3], BorderWidth>>

\* The figure/caption pair with the caption never cropped.
extract_pair_no_caption(page_image, pair) ==
    <<pad_border(crop(page_image, pair[1])), None>>

\* The body of the inner loop of extract_figures: one [figure, caption].
extract_pair(page_image, pair) ==
    <<pad_border(crop(page_image, pair[1])),
      IF pair[2] # <<>> THEN pad_border(crop(page_image, pair[2])) ELSE None>>

\* PDFService.extract_figures; raised when a key is not a page of doc.
extract_figures(doc, DPI, figure_bboxes) ==
    IF \E k \in Keys(figure_bboxes) : k >= Len(doc)
    THEN [raised |-> TRUE, results |-> <<>>]
    ELSE [raised |-> FALSE,
          results |-> [k \in Keys(figure_bboxes) |->
              LET page_image == page_to_image(doc[k + 1], DPI)
                  v == Dict(figure_bboxes)[k]
              IN  [j \in 1..Len(v) |-> extract_pair(page_image, v[j])]]]

(***************************************************************************)
(* State.                                                                  *)
(***************************************************************************)
VARIABLES
    sel_args,     \* arguments of the selected_pages call under test
    sel_impl,     \* which selected_pages ran: "none", "PDFService", "pdf"
    sel_ret,      \* its outcome: [raised, pages]
    pc,           \* position of the request handler
    req,          \* the request being handled
    opened,       \* whether the handler has opened the upload (PDFService())
    doc,          \* PDFService.doc: the pages of the open document
    compactions,  \* number of reduce_pdf_size calls on the service object
    blank,        \* redact_doc: the local delete_pages between loops and deletion
    urls,         \* pdf_to_images: the paths collected so far
    figures,      \* extract_figures: extracted_figures after the save loop
    files,        \* the temporary file area: path -> content
    mtime,        \* the modification time of each file of the area
    resp,         \* the response: [status, detail, body]
    served,       \* number of requests answered before the current one
    clock,        \* the time, in seconds
    sweep_pc,     \* position of delete_tempfiles: "idle", "removing", "done"
    sweep_now,    \* curr_time of the running or last list_tempfiles
    sweep_list,   \* the paths list_tempfiles returned that are not removed yet
    sweep_resp    \* status of the last DELETE /pdf/tempfiles, 0 before it

selvars == <<sel_args, sel_impl, sel_ret>>
reqvars == <<pc, req, opened, doc, compactions, blank, urls, figures, files,
            mtime, resp>>
sweepvars == <<served, clock, sweep_pc, sweep_now, sweep_list, sweep_resp>>
vars == <<sel_args, sel_impl, sel_ret, pc, req, opened, doc, compactions,
          blank, urls, figures, files, mtime, resp, served, clock, sweep_pc,
          sweep_now, sweep_list, sweep_resp>>

NoRequest ==
    [endpoint |-> "none", content_type |-> "", body |-> [pdf |-> FALSE, pages |-> <<>>],
     redaction_bboxes |-> <<>>, figure_bboxes |-> <<>>,
     del_page_start |-> None, del_page_end |-> None, del_pages_list |-> None]

NoResponse == [status |-> 0, detail |-> "", body |-> <<>>]

ReqInit ==
    /\ pc = "idle"
    /\ req = NoRequest
    /\ opened = FALSE
    /\ doc = <<>>
    /\ compactions = 0
    /\ blank = {}
    /\ urls = <<>>
    /\ figures = <<>>
    /\ files = <<>>
    /\ mtime = <<>>
    /\ resp = NoResponse
    /\ served = 0
    /\ clock = 0
    /\ sweep_pc = "idle"
    /\ sweep_now = 0
    /\ sweep_list = {}
    /\ sweep_resp = 0

(***************************************************************************)
(* Specification of the page selector as a pure function: the arguments    *)
(* are drawn from bounded sets and one of the two implementations runs.    *)
(***************************************************************************)
OptInts == {None} \cup {Some(v) : v \in -(MaxTotal + 1)..(MaxTotal + 1)}

RECURSIVE SeqsUpTo(_, _)
SeqsUpTo(S, n) ==
    IF n = 0 THEN {<<>>}
    ELSE LET shorter == SeqsUpTo(S, n - 1)
         IN  shorter \cup {Append(s, x) : s \in {t \in shorter : Len(t) = n - 1}, x \in S}

OptLists == {None} \cup {Some(l) : l \in SeqsUpTo(-1..MaxTotal, MaxListLen)}

SelInit ==
    /\ sel_args \in [total_pages : 0..MaxTotal, start_page : OptInts,
                     end_page : OptInts, pages_list : OptLists]
    /\ sel_impl = "none"
    /\ sel_ret = Return(<<>>)
    /\ ReqInit

CallServiceSelectedPages ==
    /\ sel_impl = "none"
    /\ sel_impl' = "PDFService"
    /\ sel_ret' = selected_pages(sel_args.total_pages, sel_args.start_page,
                                 sel_args.end_page, sel_args.pages_list)
    /\ UNCHANGED <<sel_args, reqvars, sweepvars>>

CallModuleSelectedPages ==
    /\ sel_impl = "none"
    /\ sel_impl' = "pdf"
    /\ sel_ret' = pdf_selected_pages(sel_args.total_pages, sel_args.start_page,
                                     sel_args.end_page, sel_args.pages_list)
    /\ UNCHANGED <<sel_args, reqvars, sweepvars>>

SelNext == CallServiceSelectedPages \/ CallModuleSelectedPages

SpecSel == SelInit /\ [][SelNext]_vars

(***************************************************************************)
(* The HTTP endpoints of app/api/endpoints/pdf.py.  One request is handled *)
(* from its arrival to its response.                                       *)
(***************************************************************************)
HTTP_200_OK == 200
HTTP_400_BAD_REQUEST == 400
HTTP_500_INTERNAL_SERVER_ERROR == 500

InvalidFileType == "Invalid file type. Only PDF file allowed."
\* f'Failed to convert the pdf file to images: {str(e)}', e the text of the
\* exception caught
ImagesFailed(e) == "Failed to convert the pdf file to images: " \o e
FiguresFailed == "Failed to extract figures from the pdf file: {str(e)}"

\* uuid4().hex of the request: a fresh value for every request
random_str == served + 1

\* f'{settings.TEMPFILE_ROOT_DIR}/{random_str}-page{i}.png' and the other
\* paths of the temporary file area: <<random_str, kind, page, index>>.
PagePath(i) == <<random_str, "page", i, 0>>
FigurePath(k, idx) == <<random_str, "figure", k, idx>>
CaptionPath(k, idx) == <<random_str, "caption", k, idx>>
DocPath == <<random_str, "pdf", 0, 0>>

\* The uploads: the documents of 1..MaxPages pages, each page with any of
\* the text items; the documents of MaxPages + 1 pages whose pages all have
\* a header, with or without a body; and a body that is not a PDF document.
DocsOfLen(n) ==
    {[i \in 1..n |-> [id |-> i - 1, text |-> f[i]]] : f \in [1..n -> SUBSET Items]}
Docs == UNION {DocsOfLen(n) : n \in 1..MaxPages}
LongDocs == {d \in DocsOfLen(MaxPages + 1) : \A i \in 1..Len(d) : Header \in d[i].text}
Bodies == {[pdf |-> TRUE, pages |-> d] : d \in Docs \cup LongDocs}
              \cup {[pdf |-> FALSE, pages |-> <<>>]}
ContentTypes == {"application/pdf", "image/jpeg"}

\* The items of the map m with the keys in ascending, in descending order.
ItemsAscending(m) ==
    LET keys == sorted(DOMAIN m)
    IN  [i \in 1..Len(keys) |-> <<keys[i], m[keys[i]]>>]
ItemsDescending(m) ==
    LET keys == sorted(DOMAIN m)
    IN  [i \in 1..Len(keys) |->
            <<keys[Len(keys) + 1 - i], m[keys[Len(keys) + 1 - i]]>>]

\* The parsed form fields: JSON objects keyed by page index, the keys of
\* redaction_bboxes in ascending or descending order, those of figure_bboxes
\* in ascending order.
PageKeys == 0..(MaxPages - 1)
RedactionLists == {<<HeaderBox, FooterBox>>}
RedactionMaps ==
    UNION {[K -> RedactionLists] : K \in SUBSET PageKeys}
FigureLists ==
    {<< <<FigureBox, None>> >>,
     << <<FigureBox, CaptionBox>>, <<HeaderBox, None>> >>}
FigureMaps ==
    UNION {[K -> FigureLists] :
              K \in {J \in SUBSET PageKeys : Cardinality(J) <= MaxFigurePages}}
RedactionItems ==
    {ItemsAscending(m) : m \in RedactionMaps}
        \cup {ItemsDescending(m) : m \in RedactionMaps}
FigureItems == {ItemsAscending(m) : m \in FigureMaps}

\* The deletion fields: none; a list; a start inside a document of two or
\* more pages; a start beyond every document; an end before the first page of
\* every document; a range and a list that together name every page.
DelSpecs ==
    {[start |-> None, end |-> None, list |-> None],
     [start |-> None, end |-> None, list |-> Some(<<0>>)],
     [start |-> Some(1), end |-> None, list |-> None],
     [start |-> Some(MaxPages), end |-> None, list |-> None],
     [start |-> None, end |-> Some(-(MaxPages + 1)), list |-> None],
     [start |-> Some(1), end |-> Some(-1), list |-> Some(<<0>>)]}

Respond(status, detail, body) ==
    /\ resp' = [status |-> status, detail |-> detail, body |-> body]
    /\ pc' = "done"

\* The texts of the exception pymupdf.open raises on bytes that are no PDF
\* document; which one is the engine's choice.
OpenErrors == {"Failed to open stream", "Cannot open empty stream"}

\* PDFService.bytes_to_doc: pymupdf.open raises on bytes that are no PDF.
bytes_to_doc(body) ==
    IF body.pdf THEN [raised |-> FALSE, doc |-> body.pages]
    ELSE [raised |-> TRUE, doc |-> <<>>]

\* The content type test placed inside the try block: the HTTPException
\* is caught and answered as a 500.
ContentTypeRejectionCaught(content_type, failure) ==
    [status |-> HTTP_500_INTERNAL_SERVER_ERROR, detail |-> failure]

\* if file.content_type != 'application/pdf': raise HTTPException(400, ...)
ContentTypeRejection(content_type, failure) ==
    [status |-> HTTP_400_BAD_REQUEST, detail |-> InvalidFileType]

\* POST /pdf/images up to "await file.read()", for an upload of one of the
\* given content types and bodies: the content type test.
PostImagesOf(content_types, bodies) ==
    /\ pc = "idle"
    /\ \E content_type \in content_types, body \in bodies :
        /\ req' = [NoRequest EXCEPT !.endpoint = "images",
                                    !.content_type = content_type,
                                    !.body = body]
        /\ IF content_type # "application/pdf"
           THEN LET r == ContentTypeRejection(content_type, ImagesFailed(InvalidFileType))
                IN  Respond(r.status, r.detail, <<>>)
           ELSE pc' = "read" /\ UNCHANGED resp
    /\ UNCHANGED <<opened, doc, compactions, blank, urls, figures, files, mtime,
                   selvars, sweepvars>>

\* file.read() has returned: PDFService(pdfbytes).
ImagesOpen ==
    /\ pc = "read"
    /\ req.endpoint = "images"
    /\ LET o == bytes_to_doc(req.body)
       IN  IF o.raised
           THEN /\ \E e \in OpenErrors :
                     Respond(HTTP_500_INTERNAL_SERVER_ERROR, ImagesFailed(e), <<>>)
                /\ UNCHANGED <<opened, doc>>
           ELSE /\ opened' = TRUE
                /\ doc' = o.doc
                /\ pc' = "images"
                /\ UNCHANGED resp
    /\ UNCHANGED <<req, compactions, blank, urls, figures, files, mtime, selvars,
                   sweepvars>>

PostImages == PostImagesOf(ContentTypes, Bodies)

\* The index enumerate() gives to the next page, counting from one.
NextImageIndexFromOne(done) == done + 1

\* The index enumerate() gives to the next page of doc_to_images_gen.
NextImageIndex(done) == done

\* One iteration of the loop over doc_to_images_gen(): render the next
\* page, save the image, append its path.
ImagesRenderPage ==
    /\ pc = "images"
    /\ Len(urls) < Len(doc)
    /\ LET i == NextImageIndex(Len(urls))
           image == page_to_image(doc[Len(urls) + 1], DefaultDPI)
       IN  /\ files' = (PagePath(i) :> image) @@ files
           /\ mtime' = (PagePath(i) :> clock) @@ mtime
           /\ urls' = Append(urls, PagePath(i))
    /\ UNCHANGED <<pc, req, opened, doc, compactions, blank, figures, resp, selvars, sweepvars>>

\* The generator is exhausted: return urls.
ImagesReturn ==
    /\ pc = "images"
    /\ Len(urls) = Len(doc)
    /\ Respond(HTTP_200_OK, "", urls)
    /\ UNCHANGED <<req, opened, doc, compactions, blank, urls, figures, files, mtime, selvars, sweepvars>>

\* POST /pdf/figures up to "await file.read()": the content type test and
\* the parsing of the two JSON objects.
PostFigures ==
    /\ pc = "idle"
    /\ \E content_type \in ContentTypes, body \in Bodies,
          rb \in RedactionItems, fb \in FigureItems, del \in DelSpecs :
        /\ req' = [endpoint |-> "figures", content_type |-> content_type,
                   body |-> body, redaction_bboxes |-> rb, figure_bboxes |-> fb,
                   del_page_start |-> del.start, del_page_end |-> del.end,
                   del_pages_list |-> del.list]
        /\ IF content_type # "application/pdf"
           THEN LET r == ContentTypeRejection(content_type, FiguresFailed)
                IN  Respond(r.status, r.detail, <<>>)
           ELSE pc' = "read" /\ UNCHANGED resp
    /\ UNCHANGED <<opened, doc, compactions, blank, urls, figures, files, mtime,
                   selvars, sweepvars>>

\* file.read() has returned: PDFService(pdfbytes).
FiguresOpen ==
    /\ pc = "read"
    /\ req.endpoint = "figures"
    /\ LET o == bytes_to_doc(req.body)
       IN  IF o.raised
           THEN /\ Respond(HTTP_500_INTERNAL_SERVER_ERROR, FiguresFailed, <<>>)
                /\ UNCHANGED <<opened, doc>>
           ELSE /\ opened' = TRUE
                /\ doc' = o.doc
                /\ pc' = "extract"
                /\ UNCHANGED resp
    /\ UNCHANGED <<req, compactions, blank, urls, figures, files, mtime, selvars,
                   sweepvars>>

\* The loop that saves the extracted images and replaces them by their
\* paths: the pairs of one page.
SavedPairs(k, v) ==
    [j \in 1..Len(v) |->
        <<FigurePath(k, j - 1),
          IF v[j][2] # <<>> THEN CaptionPath(k, j - 1) ELSE None>>]

\* The files that loop writes for one page.
SavedFiles(k, v) ==
    {<<FigurePath(k, j - 1), v[j][1]>> : j \in 1..Len(v)}
        \cup {<<CaptionPath(k, j - 1), v[j][2]>> :
                  j \in {n \in 1..Len(v) : v[n][2] # <<>>}}

\* extract_figures and the loop saving every figure and caption image.
FiguresExtract ==
    /\ pc = "extract"
    /\ LET e == extract_figures(doc, DefaultDPI, req.figure_bboxes)
       IN  IF e.raised
           THEN /\ Respond(HTTP_500_INTERNAL_SERVER_ERROR, FiguresFailed, <<>>)
                /\ UNCHANGED <<figures, files, mtime>>
           ELSE LET written == UNION {SavedFiles(k, e.results[k]) :
                                          k \in DOMAIN e.results}
                IN  /\ figures' = [k \in DOMAIN e.results |->
                                      SavedPairs(k, e.results[k])]
                    /\ files' = [p \in DOMAIN files \cup {w[1] : w \in written} |->
                                    IF \E w \in written : w[1] = p
                                    THEN (CHOOSE w \in written : w[1] = p)[2]
                                    ELSE files[p]]
                    /\ mtime' = [p \in DOMAIN files \cup {w[1] : w \in written} |->
                                    IF \E w \in written : w[1] = p
                                    THEN clock ELSE mtime[p]]
                    /\ pc' = "redact"
                    /\ UNCHANGED resp
    /\ UNCHANGED <<req, opened, doc, compactions, blank, urls, selvars, sweepvars>>

\* pdf_service.redact_doc(parsed_redaction_bboxes, parsed_figure_bboxes),
\* its two loops: every redaction and every blank test.
FiguresRedact ==
    /\ pc = "redact"
    /\ LET r == redact_pages(doc, DefaultDPI,
                             req.redaction_bboxes, req.figure_bboxes)
       IN  /\ doc' = r.doc
           /\ blank' = r.delete_pages
           /\ IF r.raised
              THEN Respond(HTTP_500_INTERNAL_SERVER_ERROR, FiguresFailed, <<>>)
              ELSE pc' = "delete_blank" /\ UNCHANGED resp
    /\ UNCHANGED <<req, opened, compactions, urls, figures, files, mtime, selvars, sweepvars>>

\* The end of redact_doc: the blank pages are deleted and the document is
\* compacted.
FiguresDeleteBlank ==
    /\ pc = "delete_blank"
    /\ LET r == delete_blank_pages(doc, compactions, blank)
       IN  /\ doc' = r.doc
           /\ compactions' = r.compactions
           /\ IF r.raised
              THEN Respond(HTTP_500_INTERNAL_SERVER_ERROR, FiguresFailed, <<>>)
              ELSE pc' = "delete" /\ UNCHANGED resp
    /\ UNCHANGED <<req, opened, blank, urls, figures, files, mtime, selvars, sweepvars>>

\* del_pages = json.loads(del_pages_list) if del_pages_list else None;
\* pdf_service.delete_pages(del_page_start, del_page_end, del_pages)
FiguresDelete ==
    /\ pc = "delete"
    /\ LET r == delete_pages(doc, compactions, req.del_page_start,
                             req.del_page_end, req.del_pages_list)
       IN  /\ doc' = r.doc
           /\ compactions' = r.compactions
           /\ IF r.raised
              THEN Respond(HTTP_500_INTERNAL_SERVER_ERROR, FiguresFailed, <<>>)
              ELSE pc' = "save" /\ UNCHANGED resp
    /\ UNCHANGED <<req, opened, blank, urls, figures, files, mtime, selvars, sweepvars>>

\* pdf_service.save(docpath); return FiguresResponse(doc, figures)
FiguresSave ==
    /\ pc = "save"
    /\ files' = (DocPath :> doc) @@ files
    /\ mtime' = (DocPath :> clock) @@ mtime
    /\ Respond(HTTP_200_OK, "", <<DocPath, figures>>)
    /\ UNCHANGED <<req, opened, doc, compactions, blank, urls, figures, selvars, sweepvars>>

Init ==
    /\ sel_args = [total_pages |-> 0, start_page |-> None, end_page |-> None,
                   pages_list |-> None]
    /\ sel_impl = "none"
    /\ sel_ret = Return(<<>>)
    /\ ReqInit

Next ==
    \/ PostImages
    \/ ImagesOpen
    \/ ImagesRenderPage
    \/ ImagesReturn
    \/ PostFigures
    \/ FiguresOpen
    \/ FiguresExtract
    \/ FiguresRedact
    \/ FiguresDeleteBlank
    \/ FiguresDelete
    \/ FiguresSave

Spec == Init /\ [][Next]_vars

(***************************************************************************)
(* The retention sweep: DELETE /pdf/tempfiles, interleaved with the        *)
(* passing of time and with image requests that write new files.  The      *)
(* sweep is cut at every file system call; one sweep runs at a time.       *)
(***************************************************************************)
MaxRequests == 2
MaxPeriods == 1

HTTP_204_NO_CONTENT == 204
FILE_RETENTION_TIME == 3600

\* The instants of the model: the start and the second after the start of
\* every retention period.
Times == {j * FILE_RETENTION_TIME + e : j \in 0..MaxPeriods, e \in 0..1}

\* The uploads of the image requests: the documents whose pages have every
\* text item.
SweepBodies ==
    {[pdf |-> TRUE, pages |-> d] :
        d \in {x \in Docs : \A i \in 1..Len(x) : x[i].text = Items}}

\* cutoff_time = curr_time - timedelta(seconds=settings.FILE_RETENTION_TIME)
cutoff_time(curr_time) == curr_time - FILE_RETENTION_TIME

\* The expiry test with the cutoff instant included.
IsExpiredInclusive(file_modified_time, cutoff) == file_modified_time <= cutoff

\* if file_modified_time < cutoff_time: file_paths.append(file_path)
IsExpired(file_modified_time, cutoff) == file_modified_time < cutoff

\* list_tempfiles() called at curr_time; os.listdir gives no order, so the
\* paths are a set.
list_tempfiles(curr_time) ==
    {p \in DOMAIN files : IsExpired(mtime[p], cutoff_time(curr_time))}

\* Time passes: datetime.now() and the modification times grow.
Tick ==
    /\ \E t \in Times : t > clock /\ clock' = t
    /\ UNCHANGED <<reqvars, selvars, served, sweep_pc, sweep_now, sweep_list,
                   sweep_resp>>

\* The response was sent; the next request gets a new PDFService and a new
\* random_str.
NextRequest ==
    /\ pc = "done"
    /\ served + 1 < MaxRequests
    /\ served' = served + 1
    /\ pc' = "idle"
    /\ req' = NoRequest
    /\ opened' = FALSE
    /\ doc' = <<>>
    /\ compactions' = 0
    /\ blank' = {}
    /\ urls' = <<>>
    /\ figures' = <<>>
    /\ resp' = NoResponse
    /\ UNCHANGED <<files, mtime, selvars, clock, sweep_pc, sweep_now,
                   sweep_list, sweep_resp>>

\* POST /pdf/images with a PDF document.
SweepPostImages == PostImagesOf({"application/pdf"}, SweepBodies)

\* DELETE /pdf/tempfiles: the call of list_tempfiles().
DeleteTempfilesList ==
    /\ sweep_pc \in {"idle", "done"}
    /\ sweep_now' = clock
    /\ sweep_list' = list_tempfiles(clock)
    /\ sweep_pc' = "removing"
    /\ sweep_resp' = 0
    /\ UNCHANGED <<reqvars, selvars, served, clock>>

\* One iteration of "for f in list_tempfiles(): os.remove(f)"; os.remove
\* raises on a path that is not there, and the handler answers 500.
DeleteTempfilesRemove ==
    /\ sweep_pc = "removing"
    /\ \E f \in sweep_list :
        IF f \in DOMAIN files
        THEN /\ files' = [p \in DOMAIN files \ {f} |-> files[p]]
             /\ mtime' = [p \in DOMAIN files \ {f} |-> mtime[p]]
             /\ sweep_list' = sweep_list \ {f}
             /\ UNCHANGED <<sweep_pc, sweep_resp>>
        ELSE /\ sweep_pc' = "done"
             /\ sweep_resp' = HTTP_500_INTERNAL_SERVER_ERROR
             /\ UNCHANGED <<files, mtime, sweep_list>>
    /\ UNCHANGED <<pc, req, opened, doc, compactions, blank, urls, figures,
                   resp, selvars, served, clock, sweep_now>>

\* The loop is over: 204.
DeleteTempfilesReturn ==
    /\ sweep_pc = "removing"
    /\ sweep_list = {}
    /\ sweep_pc' = "done"
    /\ sweep_resp' = HTTP_204_NO_CONTENT
    /\ UNCHANGED <<reqvars, selvars, served, clock, sweep_now, sweep_list>>

SweepNext ==
    \/ Tick
    \/ SweepPostImages
    \/ ImagesOpen
    \/ ImagesRenderPage
    \/ ImagesReturn
    \/ NextRequest
    \/ DeleteTempfilesList
    \/ DeleteTempfilesRemove
    \/ DeleteTempfilesReturn

SpecSweep == Init /\ [][SweepNext]_vars

(***************************************************************************)
(* Properties of the page selector (checked under SpecSel).               *)
(***************************************************************************)
SelCalled == sel_impl # "none"
SelReturned == SelCalled /\ ~sel_ret.raised

\* C1: whenever selected_pages returns a result, every index idx in it
\* satisfies 0 <= idx < totalPages, whatever start, end and explicitPages
\* (duplicates, values >= totalPages, negative values) are.
C1_ResultInBounds ==
    SelReturned =>
        \A i \in 1..Len(sel_ret.pages) :
            0 <= sel_ret.pages[i] /\ sel_ret.pages[i] < sel_args.total_pages

\* C2: with start and end absent and an explicitPages list that is not
\* empty and holds only values >= totalPages, selected_pages raises
\* ValueError instead of returning a result.
C2_OnlyOutOfRangeRaises ==
    ( /\ SelCalled
      /\ sel_args.start_page = None
      /\ sel_args.end_page = None
      /\ ListTruthy(sel_args.pages_list)
      /\ \A v \in SeqRange(sel_args.pages_list[1]) : v >= sel_args.total_pages )
    => sel_ret.raised

\* The failure rules of the range normalisation.
StartFails ==
    /\ sel_args.start_page # None
    /\ sel_args.start_page[1] > 0
    /\ sel_args.start_page[1] >= sel_args.total_pages
EndFails ==
    /\ sel_args.end_page # None
    /\ sel_args.end_page[1] < 0
    /\ sel_args.end_page[1] + sel_args.total_pages < 0

\* The normalised bounds as the specification gives them.
NormStart ==
    IF sel_args.start_page = None THEN 0
    ELSE IF sel_args.start_page[1] < 0
         THEN Max(0, sel_args.total_pages + sel_args.start_page[1])
         ELSE sel_args.start_page[1]
NormEnd ==
    IF sel_args.end_page = None THEN sel_args.total_pages - 1
    ELSE IF sel_args.end_page[1] < 0
         THEN sel_args.total_pages + sel_args.end_page[1]
         ELSE Min(sel_args.total_pages - 1, sel_args.end_page[1])

\* C3: for totalPages >= 1, no explicitPages, start and end each absent or
\* a nonzero integer that triggers no failure rule, PDFService.selected_pages
\* returns exactly the integers from the normalised start to the normalised
\* end, also when a normalised value is 0.  (Stated for the calls that give
\* a range, that is with start or end present.)
C3_RangeIsNormalisedInterval ==
    ( /\ sel_impl = "PDFService"
      /\ sel_args.total_pages >= 1
      /\ sel_args.pages_list = None
      /\ (sel_args.start_page # None \/ sel_args.end_page # None)
      /\ sel_args.start_page # Some(0)
      /\ sel_args.end_page # Some(0)
      /\ ~StartFails
      /\ ~EndFails )
    => /\ ~sel_ret.raised
       /\ Len(sel_ret.pages) = Max(0, NormEnd - NormStart + 1)
       /\ \A i \in 1..Len(sel_ret.pages) : sel_ret.pages[i] = NormStart + i - 1

\* C6: selected_pages raises ValueError whenever start is positive and
\* start >= totalPages, or end is negative and end + totalPages < 0,
\* whatever the other arguments are.
C6_OutOfRangeRaises ==
    (SelCalled /\ (StartFails \/ EndFails)) => sel_ret.raised

\* A call that fails on its start although explicitPages holds a valid index.
C6_Witness ==
    /\ SelCalled
    /\ StartFails
    /\ ~EndFails
    /\ sel_args.start_page[1] = sel_args.total_pages
    /\ ListTruthy(sel_args.pages_list)
    /\ \E v \in SeqRange(sel_args.pages_list[1]) :
          0 <= v /\ v < sel_args.total_pages
    /\ sel_ret.raised

\* C7: every returned sequence is strictly ascending, hence without
\* duplicates, also when explicitPages repeats values or overlaps the range.
C7_StrictlyAscending ==
    SelReturned =>
        \A i \in 1..Len(sel_ret.pages) : \A j \in 1..Len(sel_ret.pages) :
            i < j => sel_ret.pages[i] < sel_ret.pages[j]

\* A result of two or more indices from a list that repeats a value lying
\* in the start/end range.
C7_Witness ==
    /\ SelReturned
    /\ Len(sel_ret.pages) >= 2
    /\ Truthy(sel_args.start_page)
    /\ ListTruthy(sel_args.pages_list)
    /\ Len(sel_args.pages_list[1]) = 2
    /\ sel_args.pages_list[1][1] = sel_args.pages_list[1][2]
    /\ sel_args.pages_list[1][1] >= sel_args.start_page[1]
    /\ sel_args.pages_list[1][1] > 0
    /\ sel_args.pages_list[1][1] < sel_args.total_pages

(***************************************************************************)
(* Properties of the document operations and of the endpoints (checked     *)
(* under Spec).                                                            *)
(***************************************************************************)
Uploaded == req.body.pages

\* The boxes a request asks to redact on page k.
BoxesOf(k) ==
    (IF k \in DOMAIN Dict(req.redaction_bboxes)
     THEN SeqRange(Dict(req.redaction_bboxes)[k]) ELSE {})
    \cup
    (IF k \in DOMAIN Dict(req.figure_bboxes)
     THEN {b \in UNION {SeqRange(Dict(req.figure_bboxes)[k][j]) :
                           j \in 1..Len(Dict(req.figure_bboxes)[k])} : b # <<>>}
     ELSE {})

Keyed(k) == k \in DOMAIN Dict(req.redaction_bboxes) \cup DOMAIN Dict(req.figure_bboxes)

\* Every text item of the uploaded page k lies in a box redacted on it.
LosesAllText(k) ==
    \A it \in Uploaded[k + 1].text :
        \E b \in BoxesOf(k) : InBox(it, ToRedactBox(b, DefaultDPI))

PageIds(d) == [i \in 1..Len(d) |-> d[i].id]

\* C4: after redact_doc on a document whose pages do not all become blank,
\* the remaining pages are the original pages in their order minus the keyed
\* pages that have no text left after their redactions.
C4_RedactDropsExactlyBlankKeyedPages ==
    (pc = "delete") =>
        PageIds(doc) =
            SelectSeq(PageIds(Uploaded),
                      LAMBDA k : ~(Keyed(k) /\ LosesAllText(k)))

\* A 2-page document whose page 1 had text and lost all of it: 1 page left.
C4_Witness ==
    /\ pc = "delete"
    /\ Len(Uploaded) = 2
    /\ Uploaded[2].text # {}
    /\ Keyed(1)
    /\ LosesAllText(1)
    /\ PageIds(doc) = <<0>>

DeletionAbsent ==
    /\ req.del_page_start = None
    /\ req.del_page_end = None
    /\ req.del_pages_list = None

\* C5: with start, end and explicitPages all absent, PDFService.delete_pages
\* raises no error and leaves the document as it is: same pages, no deletion,
\* no compaction.
C5_AbsentDeletionIsNoOp ==
    [][(pc = "delete" /\ DeletionAbsent) =>
          /\ pc' = "save"
          /\ doc' = doc
          /\ compactions' = compactions
          /\ resp' = resp]_vars

\* delete_pages has run on a request without any deletion field.
C5_Witness ==
    /\ pc = "save"
    /\ DeletionAbsent
    /\ Len(doc) >= 1

\* C8: on both POST /pdf/images and POST /pdf/figures an upload whose
\* content type is not application/pdf is answered with status 400 and the
\* detail 'Invalid file type. Only PDF file allowed.'; no document is opened
\* and no file is written.
C8_WrongContentTypeIs400 ==
    (req.endpoint \in {"images", "figures"} /\ req.content_type # "application/pdf")
    => /\ pc = "done"
       /\ resp.status = 400
       /\ resp.detail = "Invalid file type. Only PDF file allowed."
       /\ ~opened
       /\ DOMAIN files = {}

\* A rejected upload on the figures endpoint whose body is a PDF document.
C8_Witness ==
    /\ req.endpoint = "figures"
    /\ req.content_type = "image/jpeg"
    /\ req.body.pdf
    /\ resp.status = 400

\* C9: for a valid N-page document POST /pdf/images returns exactly N paths,
\* the i-th being the image of page i, named '<id>-page<i>.png', in document
\* order, and rendering leaves the pages of the document as they were.
C9_OneImagePerPageInOrder ==
    (req.endpoint = "images" /\ resp.status = 200)
    => /\ Len(resp.body) = Len(Uploaded)
       /\ \A i \in 0..(Len(Uploaded) - 1) :
            /\ resp.body[i + 1] = <<random_str, "page", i, 0>>
            /\ resp.body[i + 1] \in DOMAIN files
            /\ files[resp.body[i + 1]][1] = Uploaded[i + 1].id
       /\ doc = Uploaded

\* A 2-page document answered with 2 paths.
C9_Witness ==
    /\ req.endpoint = "images"
    /\ resp.status = 200
    /\ Len(Uploaded) = 2
    /\ Len(resp.body) = 2

FiguresExtracted ==
    req.endpoint = "figures"
        /\ (pc \in {"redact", "delete_blank", "delete", "save"} \/ resp.status = 200)

\* C10: for every page key of the FigureMap there are as many output pairs
\* as input pairs, in the same order; the j-th output pair has a figure
\* entry, and a caption entry exactly when the j-th input pair has a caption
\* rectangle; the response of POST /pdf/figures carries the same pairs.
C10_FigurePairsMatchInput ==
    FiguresExtracted =>
        /\ DOMAIN figures = DOMAIN Dict(req.figure_bboxes)
        /\ \A k \in DOMAIN Dict(req.figure_bboxes) :
            /\ Len(figures[k]) = Len(Dict(req.figure_bboxes)[k])
            /\ \A j \in 1..Len(Dict(req.figure_bboxes)[k]) :
                /\ figures[k][j][1] # None
                /\ figures[k][j][1] \in DOMAIN files
                /\ files[figures[k][j][1]][3] = Dict(req.figure_bboxes)[k][j][1]
                /\ (figures[k][j][2] # None) <=> (Dict(req.figure_bboxes)[k][j][2] # None)
                /\ figures[k][j][2] # None =>
                     /\ figures[k][j][2] \in DOMAIN files
                     /\ files[figures[k][j][2]][3] = Dict(req.figure_bboxes)[k][j][2]
        /\ resp.status = 200 => resp.body[2] = figures

\* A response with two pairs on one page, the first with a caption and the
\* second without.
C10_Witness ==
    /\ req.endpoint = "figures"
    /\ resp.status = 200
    /\ \E k \in DOMAIN figures :
        /\ Len(figures[k]) = 2
        /\ figures[k][1][2] # None
        /\ figures[k][2][2] = None

(***************************************************************************)
(* Properties of the POST /pdf/figures pipeline (checked under Spec).      *)
(***************************************************************************)
\* The pages the request asks to delete, read as indices of the upload.
RequestedOfUpload ==
    selected_pages(Len(Uploaded), req.del_page_start, req.del_page_end,
                   req.del_pages_list)

\* C11: in the pipeline of POST /pdf/figures (redact_doc, then delete_pages)
\* the pages removed from the uploaded document are exactly the pages found
\* blank and the pages the user asked for, both as indices of the uploaded
\* document: deleting the blank pages does not change which uploaded page a
\* requested index removes.
C11_RemovedAreBlankAndRequested ==
    (req.endpoint = "figures" /\ pc = "save" /\ ~RequestedOfUpload.raised) =>
        PageIds(doc) =
            SelectSeq(PageIds(Uploaded),
                      LAMBDA k : /\ ~(Keyed(k) /\ LosesAllText(k))
                                 /\ k \notin SeqRange(RequestedOfUpload.pages))

\* The deletion fields of the request do not resolve on the open document.
SelectionInvalid ==
    selected_pages(Len(doc), req.del_page_start, req.del_page_end,
                   req.del_pages_list).raised

\* C13: when the deletion fields of POST /pdf/figures fail with
\* InvalidSelection, the caller receives a 400-class response and no
\* processed document is saved.
C13_InvalidSelectionIs400 ==
    [][(pc = "delete" /\ SelectionInvalid) =>
          /\ pc' = "done"
          /\ resp'.status >= 400 /\ resp'.status <= 499
          /\ <<random_str, "pdf", 0, 0>> \notin DOMAIN files']_vars

\* A redaction has changed the text of a page of the open document.
Redacts == pc # "idle" /\ Len(doc') = Len(doc) /\ doc' # doc

\* A page has been deleted from the open document.
DeletesPage == Len(doc') < Len(doc)

\* C12: in every execution of POST /pdf/figures all figure and caption crops
\* are rendered before the first redaction; all redactions and blank tests
\* are done before any page is deleted; the blank pages are deleted before
\* the user-selected pages are resolved and deleted; the document is saved
\* only after both deletion steps.
C12_PipelineOrder ==
    [][req'.endpoint = "figures" =>
          /\ DOMAIN files' # DOMAIN files /\ pc # "save" =>
                /\ pc = "extract"
                /\ doc = Uploaded /\ doc' = doc
          /\ Redacts =>
                /\ pc = "redact"
                /\ DOMAIN figures = DOMAIN Dict(req.figure_bboxes)
                /\ figures' = figures /\ files' = files
          /\ pc' = "redact" => pc = "extract"
          /\ DeletesPage => pc \in {"delete_blank", "delete"}
          /\ pc' = "delete_blank" => pc = "redact"
          /\ pc' = "delete" => pc = "delete_blank"
          /\ pc' = "save" => pc = "delete"
          /\ <<random_str, "pdf", 0, 0>> \in DOMAIN files' =>
                /\ pc \in {"save", "done"}
                /\ files'[<<random_str, "pdf", 0, 0>>] = doc]_vars

\* A saved document that lost one page as blank and one page on request,
\* with figures extracted.
C12_Witness ==
    /\ req.endpoint = "figures"
    /\ resp.status = 200
    /\ DOMAIN figures # {}
    /\ blank # {}
    /\ req.del_pages_list = Some(<<0>>)
    /\ Len(doc) + 2 = Len(Uploaded)
    /\ <<random_str, "pdf", 0, 0>> \in DOMAIN files


(***************************************************************************)
(* Properties of the retention sweep (checked under SpecSweep).            *)
(***************************************************************************)
RemovedNow == DOMAIN files \ DOMAIN files'

\* C14: a retention sweep removes exactly the files whose modification time
\* is older than the sweep's time minus FILE_RETENTION_TIME: every step that
\* removes a file is a step of a running sweep and the file's modification
\* time is before that instant, so that no file younger than the retention
\* age is ever removed; and a sweep ends with 204 and with no file left
\* whose modification time is before that instant, however its steps are
\* interleaved with the passing of time and with requests writing files.
C14_SweepRemovesExactlyExpired ==
    [][/\ \A f \in RemovedNow :
            /\ sweep_pc = "removing"
            /\ mtime[f] < sweep_now - FILE_RETENTION_TIME
            /\ clock - mtime[f] > FILE_RETENTION_TIME
       /\ (sweep_pc = "removing" /\ sweep_pc' = "done") =>
            /\ sweep_resp' = HTTP_204_NO_CONTENT
            /\ \A f \in DOMAIN files' :
                   ~(mtime'[f] < sweep_now' - FILE_RETENTION_TIME)]_vars

\* A sweep has ended after removing the page image of the first request,
\* while the page image the second request wrote at the instant of the
\* sweep is still there.
C14_Witness ==
    /\ sweep_pc = "done"
    /\ sweep_resp = HTTP_204_NO_CONTENT
    /\ served = 1
    /\ <<1, "page", 0, 0>> \notin DOMAIN files
    /\ <<2, "page", 0, 0>> \in DOMAIN files
    /\ mtime[<<2, "page", 0, 0>>] = sweep_now
    /\ sweep_now > FILE_RETENTION_TIME
====
